---- MODULE Spec2Model ----
(***************************************************************************)
(* Model of media-blob-kit: the job queue over the relational store, the   *)
(* worker pool, the upload pipeline, the variant readers and the retention *)
(* purge.  Rows are functions from ids to records, the object store is a   *)
(* function from keys to the stored bytes (abstracted to a tag).           *)
(***************************************************************************)
EXTENDS Integers, FiniteSets, Sequences, TLC

VARIABLES
    projects,      \* projects table: id -> [settings, deleted_at]
    files,         \* files table: id -> [project_id, s3_key, mime_type, status, variants_json]
    jobs,          \* jobs table: id -> [file_id, status, payload, created_at]
    store,         \* object store: key -> data tag
    now,           \* wall clock, in days
    next_file,     \* next fresh file id (Uuid::new_v4 in the code)
    next_job,      \* next fresh job id; also the logical created_at
    config,        \* process configuration: [worker_concurrency, s3_endpoint]
    available,     \* free permits of Worker.semaphore
    wpc,           \* position of Worker::run
    claims,        \* claim transactions: claimer -> [pc, job]
    tasks,         \* spawned perform_job tasks: task id -> record
    crashes,       \* number of process restarts so far
    updates        \* number of settings updates so far

vars == <<projects, files, jobs, store, now, next_file, next_job, config,
          available, wpc, claims, tasks, crashes, updates>>

---------------------------------------------------------------------------
\* Bounds of the model.
NumProjects == 1
MaxFiles == 2
MaxJobs == 2
MaxConcurrency == 2
NumClaimers == 3
MaxCrashes == 1
MaxUpdates == 1

\* Program constants.
RetentionDays == 30

\* The step of the synthetic clock, in days.
ClockStepDays == 31

ProjectIds == 1..NumProjects
FileIds == 1..MaxFiles
JobIds == 1..MaxJobs
Claimers == 1..NumClaimers
TaskIds == 1..(MaxConcurrency + 1)
NULL == -1
NoJob == 0

VariantNames == {"thumb", "large", "original"}
EmptyMap == [n \in {} |-> ""]

\* project.settings documents the model draws from.
NoVariantsKey == [has_variants |-> FALSE, variants |-> EmptyMap]
EmptyVariants == [has_variants |-> TRUE, variants |-> EmptyMap]
OnlyThumb == [has_variants |-> TRUE, variants |-> [n \in {"thumb"} |-> "webp"]]
ThumbLarge ==
    [has_variants |-> TRUE,
     variants |-> [n \in {"thumb", "large"} |-> IF n = "thumb" THEN "webp" ELSE "jpeg"]]
SettingsValues == {NoVariantsKey, EmptyVariants, OnlyThumb, ThumbLarge}
InitialSettings == OnlyThumb

\* Whether S3_ENDPOINT is set, in the deployments the model draws from.
S3EndpointValues == {FALSE}

\* Multipart bodies the model draws from: the filename's extension, the
\* content type and what the bytes are.
UploadImageInputs ==
    {[ext |-> "png", mime_type |-> "image/png", data |-> "png"],
     [ext |-> "jpg", mime_type |-> "image/jpeg", data |-> "garbage"]}
UploadFileInputs ==
    {[ext |-> "pdf", mime_type |-> "application/pdf", data |-> "bytes"]}

---------------------------------------------------------------------------
\* Object-store keys and the values stored in files.variants_json.

OriginalKey(p, f, ext) ==
    [p |-> p, class |-> "images", sub |-> "original", f |-> f, ext |-> ext]
FileKey(p, f, ext) ==
    [p |-> p, class |-> "files", sub |-> "", f |-> f, ext |-> ext]
VariantKey(p, n, f, ext) ==
    [p |-> p, class |-> "images", sub |-> n, f |-> f, ext |-> ext]

\* The public URL of a key: "<endpoint>/<bucket>/<key>" with an endpoint
\* override, "https://<bucket>.s3.<region>.amazonaws.com/<key>" without.
PublicUrl(key) ==
    [form |-> IF config.s3_endpoint THEN "path_url" ELSE "vhost_url", key |-> key]
BareKey(key) == [form |-> "key", key |-> key]

None == [some |-> FALSE]
Some(k) == [some |-> TRUE, key |-> k]

\* The URL-to-key extraction of the delete paths: the suffix after
\* "/<bucket>/" when the value contains it; otherwise the path of the value
\* parsed as a URL; otherwise nothing.  A bare key has no scheme, so
\* Url::parse rejects it (relative URL without a base).
ResolveKey(v) ==
    CASE v.form = "path_url" -> Some(v.key)
      [] v.form = "vhost_url" -> Some(v.key)
      [] OTHER -> None

\* The same extraction in get_file_content, where a value that is neither
\* is a 500 response.
ContentKey(v) ==
    CASE v.form = "path_url" -> [ok |-> TRUE, key |-> v.key]
      [] v.form = "vhost_url" -> [ok |-> TRUE, key |-> v.key]
      [] OTHER -> [ok |-> FALSE, error |-> "Failed to parse variant URL"]

Put(s, k, d) == [x \in DOMAIN s \cup {k} |-> IF x = k THEN d ELSE s[x]]
Delete(s, ks) == [x \in DOMAIN s \ ks |-> s[x]]

\* The keys a delete path removes for one file row: the original and every
\* variants_json entry whose value resolves.
FileDeleteKeys(frow) ==
    {frow.s3_key} \cup
    {ResolveKey(frow.variants_json[n]).key :
        n \in {m \in DOMAIN frow.variants_json : ResolveKey(frow.variants_json[m]).some}}

---------------------------------------------------------------------------
\* Image transformer.

\* image::guess_format / load_from_memory on the bytes.
Decodable(data) == data \in {"png", "jpeg", "webp"}

FormatMime(format, data) ==
    CASE format = "avif" -> "image/avif"
      [] format = "webp" -> "image/webp"
      [] format = "png" -> "image/png"
      [] format \in {"jpg", "jpeg"} -> "image/jpeg"
      [] format \in {"original", "absent"} ->
            (CASE data = "png" -> "image/png"
               [] data = "jpeg" -> "image/jpeg"
               [] data = "webp" -> "image/webp"
               [] OTHER -> "application/octet-stream")
      [] OTHER -> "image/jpeg"

\* The messages process_image wraps its failures in, one per failing call:
\* load_from_memory, guess_format, write_to.
TransformerErrors ==
    {"Failed to load image", "Failed to guess format", "Failed to encode image"}

\* The stage names (decode, resize, encode) that occur in a transformer
\* message.  The resizing calls return no error.
StageWords(e) ==
    CASE e = "Failed to load image" -> {}
      [] e = "Failed to guess format" -> {}
      [] e = "Failed to encode image" -> {"encode"}
      [] OTHER -> {}

process_image(data, format) ==
    IF Decodable(data)
    THEN [ok |-> TRUE, mime_type |-> FormatMime(format, data)]
    ELSE [ok |-> FALSE, error |-> "Failed to load image"]

\* The worker's extension of a variant, from the transformer's mime type.
MimeExt(mime) ==
    CASE mime = "image/avif" -> "avif"
      [] mime = "image/webp" -> "webp"
      [] mime = "image/png" -> "png"
      [] mime = "image/jpeg" -> "jpg"
      [] OTHER -> "bin"

\* The upload handler's extension of a variant, from the configuration.
UploadVariantExt(format, ext) ==
    IF format \in {"absent", "original"} THEN ext ELSE format

MimeContainsImage(m) == m \in {"image/png", "image/jpeg"}

---------------------------------------------------------------------------
\* Job payloads.

\* The upload's job payload carrying a type field instead of the root
\* variants key.
TypedUploadPayload(settings) ==
    [kind |-> "sync_file_variants", variants_config |-> settings.variants]

LegacyPayload(settings) ==
    [kind |-> "legacy",
     variants |-> [present |-> settings.has_variants, map |-> settings.variants]]
SyncFilePayload(cfg) == [kind |-> "sync_file_variants", variants_config |-> cfg]
FailedPayload(e, p) == [kind |-> "failed", error |-> e, original_payload |-> p]

JobStatuses == {"pending", "processing", "completed", "failed"}

\* Row locks held by open claim transactions.
Locked == {claims[c].job : c \in {d \in Claimers : claims[d].pc = "locked"}}

FilesOf(p) == {f \in DOMAIN files : files[f].project_id = p}
JobsOf(fs) == {j \in DOMAIN jobs : jobs[j].file_id \in fs}

IdleClaim == [pc |-> "idle", job |-> NoJob]

---------------------------------------------------------------------------
\* Initial state: a fresh deployment with its projects created.

Init ==
    /\ projects = [p \in ProjectIds |-> [settings |-> InitialSettings, deleted_at |-> NULL]]
    /\ files = [f \in {} |-> 0]
    /\ jobs = [j \in {} |-> 0]
    /\ store = [k \in {} |-> ""]
    /\ now = 0
    /\ next_file = 1
    /\ next_job = 1
    /\ config \in {[worker_concurrency |-> c, s3_endpoint |-> e] :
                      c \in 1..MaxConcurrency, e \in S3EndpointValues}
    /\ available = config.worker_concurrency
    /\ wpc = "start"
    /\ claims = [c \in Claimers |-> IdleClaim]
    /\ tasks = [t \in {} |-> 0]
    /\ crashes = 0
    /\ updates = 0

---------------------------------------------------------------------------
\* HTTP handlers.  A handler that fails before its first write leaves the
\* state unchanged and is not a step.

upload_image(p, inp) ==
    /\ p \in DOMAIN projects
    /\ next_file <= MaxFiles
    /\ next_job <= MaxJobs
    /\ LET settings == projects[p].settings
           f == next_file
           s3_key == OriginalKey(p, f, inp.ext)
           variants ==
               IF settings.has_variants
               THEN [n \in DOMAIN settings.variants |->
                        PublicUrl(VariantKey(p, n, f,
                            UploadVariantExt(settings.variants[n], inp.ext)))]
               ELSE EmptyMap
       IN /\ store' = Put(store, s3_key, inp.data)
          /\ files' = Put(files, f,
                 [project_id |-> p, s3_key |-> s3_key, mime_type |-> inp.mime_type,
                  status |-> "processing", variants_json |-> variants])
          /\ jobs' = Put(jobs, next_job,
                 [file_id |-> f, status |-> "pending",
                  payload |-> LegacyPayload(settings), created_at |-> next_job])
    /\ next_file' = next_file + 1
    /\ next_job' = next_job + 1
    /\ UNCHANGED <<projects, now, config, available, wpc, claims, tasks, crashes, updates>>

upload_file(p, inp) ==
    /\ p \in DOMAIN projects
    /\ next_file <= MaxFiles
    /\ LET f == next_file
           s3_key == FileKey(p, f, inp.ext)
       IN /\ store' = Put(store, s3_key, inp.data)
          /\ files' = Put(files, f,
                 [project_id |-> p, s3_key |-> s3_key, mime_type |-> inp.mime_type,
                  status |-> "ready", variants_json |-> EmptyMap])
    /\ next_file' = next_file + 1
    /\ UNCHANGED <<projects, jobs, now, next_job, config, available, wpc, claims,
                   tasks, crashes, updates>>

update_project(p, settings) ==
    /\ p \in DOMAIN projects
    /\ projects[p].deleted_at = NULL
    /\ projects[p].settings # settings
    /\ updates < MaxUpdates
    /\ updates' = updates + 1
    /\ projects' = [projects EXCEPT ![p].settings = settings]
    /\ UNCHANGED <<files, jobs, store, now, next_file, next_job, config, available,
                   wpc, claims, tasks, crashes>>

\* The keys the delete paths issue an object-store delete for, over a set of
\* file rows.
IssuedDeletes(fs) == UNION {FileDeleteKeys(files[f]) : f \in fs}

\* The sets of keys whose object-store delete may fail during one request.
FailingSets(fs) == SUBSET IssuedDeletes(fs)

\* The object store never fails a delete.
NoFailure == {}

\* HardDelete skipping the delete of the rows when an object delete failed.
HardDeleteUnlessFailure(ps, failing) ==
    LET fs == UNION {FilesOf(p) : p \in ps} IN
    /\ JobsOf(fs) \cap Locked = {}
    /\ store' = Delete(store, IssuedDeletes(fs) \ failing)
    /\ IF failing = {}
       THEN /\ projects' = [p \in DOMAIN projects \ ps |-> projects[p]]
            /\ files' = [f \in DOMAIN files \ fs |-> files[f]]
            /\ jobs' = [j \in DOMAIN jobs \ JobsOf(fs) |-> jobs[j]]
       ELSE UNCHANGED <<projects, files, jobs>>

\* HardDelete leaving the project rows in place.
HardDeleteKeepingProjects(ps, failing) ==
    LET fs == UNION {FilesOf(p) : p \in ps} IN
    /\ JobsOf(fs) \cap Locked = {}
    /\ store' = Delete(store, IssuedDeletes(fs) \ failing)
    /\ projects' = projects
    /\ files' = [f \in DOMAIN files \ fs |-> files[f]]
    /\ jobs' = [j \in DOMAIN jobs \ JobsOf(fs) |-> jobs[j]]

\* DELETE of a project row with the database's ON DELETE CASCADE, after the
\* best-effort object deletes: a delete that fails (the keys in failing) is
\* logged or dropped and the next one is issued.  A cascade over a row locked
\* by an open claim transaction waits for it.
HardDelete(ps, failing) ==
    LET fs == UNION {FilesOf(p) : p \in ps} IN
    /\ JobsOf(fs) \cap Locked = {}
    /\ store' = Delete(store, IssuedDeletes(fs) \ failing)
    /\ projects' = [p \in DOMAIN projects \ ps |-> projects[p]]
    /\ files' = [f \in DOMAIN files \ fs |-> files[f]]
    /\ jobs' = [j \in DOMAIN jobs \ JobsOf(fs) |-> jobs[j]]

delete_project(p, permanent, failing) ==
    /\ p \in DOMAIN projects
    /\ projects[p].deleted_at = NULL
    /\ IF permanent
       THEN HardDelete({p}, failing)
       ELSE /\ projects' = [projects EXCEPT ![p].deleted_at = now]
            /\ UNCHANGED <<files, jobs, store>>
    /\ UNCHANGED <<now, next_file, next_job, config, available, wpc, claims, tasks,
                   crashes, updates>>

delete_file(f, failing) ==
    /\ f \in DOMAIN files
    /\ JobsOf({f}) \cap Locked = {}
    /\ store' = Delete(store, FileDeleteKeys(files[f]) \ failing)
    /\ files' = [g \in DOMAIN files \ {f} |-> files[g]]
    /\ jobs' = [j \in DOMAIN jobs \ JobsOf({f}) |-> jobs[j]]
    /\ UNCHANGED <<projects, now, next_file, next_job, config, available, wpc, claims,
                   tasks, crashes, updates>>

Rank(f, S) == Cardinality({g \in S : g < f})

sync_variants(p) ==
    /\ p \in DOMAIN projects
    /\ projects[p].deleted_at = NULL
    /\ LET images == {f \in FilesOf(p) : MimeContainsImage(files[f].mime_type)}
           variants_json == projects[p].settings.variants
           new == next_job..(next_job + Cardinality(images) - 1)
       IN /\ images # {}
          /\ next_job + Cardinality(images) - 1 <= MaxJobs
          /\ jobs' = [j \in DOMAIN jobs \cup new |->
                 IF j \in DOMAIN jobs THEN jobs[j]
                 ELSE [file_id |-> CHOOSE f \in images : Rank(f, images) = j - next_job,
                       status |-> "pending",
                       payload |-> SyncFilePayload(variants_json),
                       created_at |-> j]]
          /\ next_job' = next_job + Cardinality(images)
    /\ UNCHANGED <<projects, files, store, now, next_file, config, available, wpc,
                   claims, tasks, crashes, updates>>

---------------------------------------------------------------------------
\* Retention purge and the clock.

\* Expired with a retention of one week.
ExpiredAfterAWeek(p) ==
    /\ projects[p].deleted_at # NULL
    /\ projects[p].deleted_at < now - 7

Expired(p) ==
    /\ projects[p].deleted_at # NULL
    /\ projects[p].deleted_at < now - RetentionDays

clean_soft_deleted_projects(failing) ==
    LET projects_to_delete == {p \in DOMAIN projects : Expired(p)} IN
    /\ projects_to_delete # {}
    /\ HardDelete(projects_to_delete, failing)
    /\ UNCHANGED <<now, next_file, next_job, config, available, wpc, claims, tasks,
                   crashes, updates>>

\* Time passes; the clock is advanced only while a soft-deleted project is
\* still inside its retention period.
Tick(days) ==
    /\ \E p \in DOMAIN projects : projects[p].deleted_at # NULL /\ ~Expired(p)
    /\ now' = now + days
    /\ UNCHANGED <<projects, files, jobs, store, next_file, next_job, config,
                   available, wpc, claims, tasks, crashes, updates>>

---------------------------------------------------------------------------
\* The claim transaction (Worker::claim_next_job), one step per statement.

\* Claimable without the row lock (a plain SELECT): every pending row.
ClaimableIgnoringLocks == {j \in DOMAIN jobs : jobs[j].status = "pending"}

\* Claimable with LIMIT 1 applied before SKIP LOCKED: only the oldest pending
\* row is looked at, and it is skipped when locked.
ClaimableOldestOnly ==
    {j \in DOMAIN jobs :
        /\ jobs[j].status = "pending"
        /\ \A k \in DOMAIN jobs :
              jobs[k].status = "pending" => jobs[j].created_at <= jobs[k].created_at
        /\ j \notin Locked}

\* WHERE status = 'pending' ... FOR UPDATE SKIP LOCKED: the pending rows no
\* other open transaction has locked.
Claimable == {j \in DOMAIN jobs : jobs[j].status = "pending" /\ j \notin Locked}

\* ORDER BY created_at DESC LIMIT 1.
LastByCreatedAt(S) ==
    CHOOSE j \in S : \A k \in S : jobs[j].created_at >= jobs[k].created_at

\* ORDER BY created_at ASC LIMIT 1.
FirstByCreatedAt(S) ==
    CHOOSE j \in S : \A k \in S : jobs[j].created_at <= jobs[k].created_at

\* SET status = 'processing'.
ClaimedRow(row) == [row EXCEPT !.status = "processing"]

\* BEGIN; SELECT ... FOR UPDATE SKIP LOCKED: lock the row, or return no job.
ClaimSelect(c) ==
    /\ claims[c].pc = "idle"
    /\ IF Claimable = {}
       THEN claims' = [claims EXCEPT ![c] = [pc |-> "none", job |-> NoJob]]
       ELSE claims' = [claims EXCEPT ![c] =
                          [pc |-> "locked", job |-> FirstByCreatedAt(Claimable)]]
    /\ UNCHANGED jobs

\* UPDATE ... SET status = 'processing'; COMMIT: the lock is released and
\* the updated row is returned.
ClaimCommit(c) ==
    /\ claims[c].pc = "locked"
    /\ LET j == claims[c].job IN
       /\ jobs' = [jobs EXCEPT ![j] = ClaimedRow(jobs[j])]
       /\ claims' = [claims EXCEPT ![c] = [pc |-> "got", job |-> j, row |-> jobs'[j]]]

---------------------------------------------------------------------------
\* Worker::run: startup recovery, then the permit / claim / spawn loop.

\* Startup without the reset of the processing rows.
recover_nothing ==
    /\ wpc = "start"
    /\ wpc' = "idle"
    /\ UNCHANGED <<projects, files, jobs, store, now, next_file, next_job, config,
                   available, claims, tasks, crashes, updates>>

\* Startup recovery that also puts the failed rows back in the queue.
recover_failed_jobs_too ==
    /\ wpc = "start"
    /\ jobs' = [j \in DOMAIN jobs |->
                   IF jobs[j].status \in {"processing", "failed"}
                   THEN [jobs[j] EXCEPT !.status = "pending"]
                   ELSE jobs[j]]
    /\ wpc' = "idle"
    /\ UNCHANGED <<projects, files, store, now, next_file, next_job, config,
                   available, claims, tasks, crashes, updates>>

\* The reset of the processing rows run again while the loop is idle and
\* tasks are in flight.
recover_stuck_jobs_while_running ==
    /\ wpc \in {"start", "idle"}
    /\ jobs' = [j \in DOMAIN jobs |->
                   IF jobs[j].status = "processing"
                   THEN [jobs[j] EXCEPT !.status = "pending"]
                   ELSE jobs[j]]
    /\ wpc' = "idle"
    /\ UNCHANGED <<projects, files, store, now, next_file, next_job, config,
                   available, claims, tasks, crashes, updates>>

\* UPDATE jobs SET status = 'pending' WHERE status = 'processing'.
recover_stuck_jobs ==
    /\ wpc = "start"
    /\ jobs' = [j \in DOMAIN jobs |->
                   IF jobs[j].status = "processing"
                   THEN [jobs[j] EXCEPT !.status = "pending"]
                   ELSE jobs[j]]
    /\ wpc' = "idle"
    /\ UNCHANGED <<projects, files, store, now, next_file, next_job, config,
                   available, claims, tasks, crashes, updates>>

acquire_owned ==
    /\ wpc = "idle"
    /\ available > 0
    /\ available' = available - 1
    /\ wpc' = "holding"
    /\ UNCHANGED <<projects, files, jobs, store, now, next_file, next_job, config,
                   claims, tasks, crashes, updates>>

NewTask(row, j) ==
    [pc |-> "handle", job |-> j, file_id |-> row.file_id, payload |-> row.payload,
     project_id |-> 0, data |-> "", cfg |-> EmptyMap, todo |-> {}, acc |-> EmptyMap,
     error |-> ""]

FreeTaskId == CHOOSE t \in TaskIds \ DOMAIN tasks : \A u \in TaskIds \ DOMAIN tasks : t <= u

\* claim_next_job returned Ok(Some(job)): the transaction has committed the
\* row as processing, and tokio::spawn(perform_job(job, permit)) moves the
\* permit into the task.  The loop is the only claimer of the process, so
\* its transaction is one step here.
claim_and_spawn ==
    /\ wpc = "holding"
    /\ Claimable # {}
    /\ TaskIds \ DOMAIN tasks # {}
    /\ LET j == FirstByCreatedAt(Claimable) IN
       /\ jobs' = [jobs EXCEPT ![j] = ClaimedRow(jobs[j])]
       /\ tasks' = Put(tasks, FreeTaskId, NewTask(jobs'[j], j))
    /\ wpc' = "idle"
    /\ UNCHANGED <<projects, files, store, now, next_file, next_job, config,
                   available, claims, crashes, updates>>

\* no_job_sleep keeping the permit.
no_job_sleep_keeping_permit ==
    /\ wpc = "holding"
    /\ Claimable = {}
    /\ wpc' = "idle"
    /\ UNCHANGED <<projects, files, jobs, store, now, next_file, next_job, config,
                   available, claims, tasks, crashes, updates>>

\* claim_next_job returned Ok(None): drop(permit), sleep, loop.
no_job_sleep ==
    /\ wpc = "holding"
    /\ Claimable = {}
    /\ available' = available + 1
    /\ wpc' = "idle"
    /\ UNCHANGED <<projects, files, jobs, store, now, next_file, next_job, config,
                   claims, tasks, crashes, updates>>

\* claim_next_job returned Err (the transaction failed and rolled back):
\* drop(permit), sleep, loop.
claim_error ==
    /\ wpc = "holding"
    /\ available' = available + 1
    /\ wpc' = "idle"
    /\ UNCHANGED <<projects, files, jobs, store, now, next_file, next_job, config,
                   claims, tasks, crashes, updates>>

---------------------------------------------------------------------------
\* perform_job: handle_job, the per-variant loop, the file update and the
\* terminal update.

Failed(t, e) == [tasks EXCEPT ![t].pc = "terminal", ![t].error = e]

\* job.payload.as_object(): every payload of the model but the non-object one
\* is a JSON object.
IsObject(payload) == payload.kind # "non_object"

\* The absence of a string under the key "type".
NoType == ""

\* payload.get("type").and_then(|v| v.as_str()): the string under "type", if
\* there is one.  A type that is no string (kind "numeric_type") gives none.
TypeString(payload) ==
    CASE payload.kind \in {"sync_project_variants", "sync_file_variants"} -> payload.kind
      [] payload.kind = "typed" -> payload.type
      [] OTHER -> NoType

\* payload.contains_key("variants").
HasVariantsKey(payload) == "variants" \in DOMAIN payload

\* The dispatch with the sniff for the root variants key made before the
\* look at the type field.
DispatchSniffFirst(payload) ==
    IF ~IsObject(payload)
    THEN [ok |-> FALSE, handler |-> "", error |-> "Invalid payload"]
    ELSE IF HasVariantsKey(payload)
    THEN IF payload.variants.present
         THEN [ok |-> TRUE, handler |-> "process_image", cfg |-> payload.variants.map]
         ELSE [ok |-> FALSE, handler |-> "process_image",
               error |-> "invalid type: null, expected a map"]
    ELSE IF TypeString(payload) = "sync_project_variants"
    THEN [ok |-> TRUE, handler |-> "sync_project_variants", cfg |-> EmptyMap]
    ELSE IF TypeString(payload) = "sync_file_variants"
    THEN IF "variants_config" \in DOMAIN payload
         THEN [ok |-> TRUE, handler |-> "sync_file_variants",
               cfg |-> payload.variants_config]
         ELSE [ok |-> FALSE, handler |-> "sync_file_variants",
               error |-> "Missing variants_config"]
    ELSE IF TypeString(payload) # NoType
    THEN [ok |-> FALSE, handler |-> "", error |-> "Unknown job type"]
    ELSE [ok |-> FALSE, handler |-> "", error |-> "Unknown job payload structure"]

\* handle_job's dispatch on the payload, with the handler's parse of the
\* variant configuration: by the string under "type" when there is one,
\* otherwise by the presence of the root key "variants".
Dispatch(payload) ==
    IF ~IsObject(payload)
    THEN [ok |-> FALSE, handler |-> "", error |-> "Invalid payload"]
    ELSE IF TypeString(payload) = "sync_project_variants"
    THEN [ok |-> TRUE, handler |-> "sync_project_variants", cfg |-> EmptyMap]
    ELSE IF TypeString(payload) = "sync_file_variants"
    THEN IF "variants_config" \in DOMAIN payload
         THEN [ok |-> TRUE, handler |-> "sync_file_variants",
               cfg |-> payload.variants_config]
         ELSE [ok |-> FALSE, handler |-> "sync_file_variants",
               error |-> "Missing variants_config"]
    ELSE IF TypeString(payload) # NoType
    THEN [ok |-> FALSE, handler |-> "", error |-> "Unknown job type"]
    ELSE IF HasVariantsKey(payload)
    THEN IF payload.variants.present
         THEN [ok |-> TRUE, handler |-> "process_image", cfg |-> payload.variants.map]
         ELSE [ok |-> FALSE, handler |-> "process_image",
               error |-> "invalid type: null, expected a map"]
    ELSE [ok |-> FALSE, handler |-> "", error |-> "Unknown job payload structure"]

\* The fan-out over every file of the project, images or not.
handle_sync_project_variants_all_files(t) ==
    LET p == tasks[t].payload.project_id IN
    IF p = NULL
    THEN /\ tasks' = Failed(t, "Missing project_id")
         /\ UNCHANGED <<jobs, next_job>>
    ELSE IF p \notin DOMAIN projects
    THEN /\ tasks' = Failed(t, "Project not found")
         /\ UNCHANGED <<jobs, next_job>>
    ELSE LET images == FilesOf(p)
             variants_json == projects[p].settings.variants
             new == next_job..(next_job + Cardinality(images) - 1)
         IN /\ jobs' = [j \in DOMAIN jobs \cup new |->
                   IF j \in DOMAIN jobs THEN jobs[j]
                   ELSE [file_id |-> CHOOSE f \in images : Rank(f, images) = j - next_job,
                         status |-> "pending",
                         payload |-> SyncFilePayload(variants_json),
                         created_at |-> j]]
            /\ next_job' = next_job + Cardinality(images)
            /\ tasks' = [tasks EXCEPT ![t].pc = "terminal"]

\* The SyncProjectVariants handler: read the project and its
\* settings.variants (an empty map when the key is missing), find the
\* project's files whose mime type contains "image", insert one pending
\* sync_file_variants job per file with the configuration read.
handle_sync_project_variants(t) ==
    LET p == tasks[t].payload.project_id IN
    IF p = NULL
    THEN /\ tasks' = Failed(t, "Missing project_id")
         /\ UNCHANGED <<jobs, next_job>>
    ELSE IF p \notin DOMAIN projects
    THEN /\ tasks' = Failed(t, "Project not found")
         /\ UNCHANGED <<jobs, next_job>>
    ELSE LET images == {f \in FilesOf(p) : MimeContainsImage(files[f].mime_type)}
             variants_json == projects[p].settings.variants
             new == next_job..(next_job + Cardinality(images) - 1)
         IN /\ jobs' = [j \in DOMAIN jobs \cup new |->
                   IF j \in DOMAIN jobs THEN jobs[j]
                   ELSE [file_id |-> CHOOSE f \in images : Rank(f, images) = j - next_job,
                         status |-> "pending",
                         payload |-> SyncFilePayload(variants_json),
                         created_at |-> j]]
            /\ next_job' = next_job + Cardinality(images)
            /\ tasks' = [tasks EXCEPT ![t].pc = "terminal"]

\* handle_job reading the variant configuration of a ProcessImage job from
\* the project's current settings instead of the payload.
handle_job_current_settings(t) ==
    /\ t \in DOMAIN tasks
    /\ tasks[t].pc = "handle"
    /\ LET tk == tasks[t]
           d == Dispatch(tk.payload)
       IN tasks' =
            IF ~d.ok THEN Failed(t, d.error)
            ELSE IF tk.file_id \notin DOMAIN files THEN Failed(t, "File not found")
            ELSE IF files[tk.file_id].project_id \notin DOMAIN projects
                 THEN Failed(t, "Project not found")
            ELSE IF files[tk.file_id].s3_key \notin DOMAIN store
                 THEN Failed(t, "Failed to download file from S3")
            ELSE LET cfg == IF tk.payload.kind = "legacy"
                            THEN projects[files[tk.file_id].project_id].settings.variants
                            ELSE d.cfg
                 IN [tasks EXCEPT ![t].pc = IF DOMAIN cfg = {} THEN "update" ELSE "variants",
                                  ![t].project_id = files[tk.file_id].project_id,
                                  ![t].data = store[files[tk.file_id].s3_key],
                                  ![t].cfg = cfg,
                                  ![t].todo = DOMAIN cfg]
    /\ UNCHANGED <<projects, files, jobs, store, now, next_file, next_job, config,
                   available, wpc, claims, crashes, updates>>

\* handle_job: the dispatch, then either the SyncProjectVariants handler or,
\* for the two image handlers, the steps up to the start of the variant loop:
\* find the file and the project, download the original.
handle_job(t) ==
    /\ t \in DOMAIN tasks
    /\ tasks[t].pc = "handle"
    /\ LET tk == tasks[t]
           d == Dispatch(tk.payload)
       IN IF d.ok /\ d.handler = "sync_project_variants"
          THEN handle_sync_project_variants(t)
          ELSE /\ tasks' =
                    IF ~d.ok THEN Failed(t, d.error)
                    ELSE IF tk.file_id \notin DOMAIN files THEN Failed(t, "File not found")
                    ELSE IF files[tk.file_id].project_id \notin DOMAIN projects
                         THEN Failed(t, "Project not found")
                    ELSE IF files[tk.file_id].s3_key \notin DOMAIN store
                         THEN Failed(t, "Failed to download file from S3")
                    ELSE [tasks EXCEPT
                            ![t].pc = IF DOMAIN d.cfg = {} THEN "update" ELSE "variants",
                            ![t].project_id = files[tk.file_id].project_id,
                            ![t].data = store[files[tk.file_id].s3_key],
                            ![t].cfg = d.cfg,
                            ![t].todo = DOMAIN d.cfg]
               /\ UNCHANGED <<jobs, next_job>>
    /\ UNCHANGED <<projects, files, store, now, next_file, config, available, wpc,
                   claims, crashes, updates>>

\* A failing variant marking the file row as failed.
FileMarkedError(frows, f) ==
    IF f \in DOMAIN frows THEN [frows EXCEPT ![f].status = "error"] ELSE frows

\* What a failing variant does to the file row: nothing, the error is
\* returned before the row is written.
FileAfterVariantFailure(frows, f) == frows

\* One iteration of the variant loop: transform, derive the key, upload,
\* record the key.  The upload may fail.
process_variant(t, n, put_ok) ==
    /\ t \in DOMAIN tasks
    /\ tasks[t].pc = "variants"
    /\ n \in tasks[t].todo
    /\ LET tk == tasks[t]
           r == process_image(tk.data, tk.cfg[n])
           s3_key == VariantKey(tk.project_id, n, tk.file_id, MimeExt(r.mime_type))
       IN IF ~r.ok
          THEN /\ put_ok
               /\ tasks' = Failed(t, r.error)
               /\ files' = FileAfterVariantFailure(files, tk.file_id)
               /\ UNCHANGED store
          ELSE IF ~put_ok
          THEN /\ tasks' = Failed(t, "Failed to upload file to S3")
               /\ files' = FileAfterVariantFailure(files, tk.file_id)
               /\ UNCHANGED store
          ELSE /\ store' = Put(store, s3_key, "variant")
               /\ tasks' = [tasks EXCEPT
                      ![t].acc = Put(tk.acc, n, BareKey(s3_key)),
                      ![t].todo = tk.todo \ {n},
                      ![t].pc = IF tk.todo = {n} THEN "update" ELSE "variants"]
               /\ UNCHANGED files
    /\ UNCHANGED <<projects, jobs, now, next_file, next_job, config, available, wpc,
                   claims, crashes, updates>>

\* ReadyFile writing the status only.
ReadyFileStatusOnly(frow, acc) == [frow EXCEPT !.status = "ready"]

\* ReadyFile merging the new entries into the map the row already has.
ReadyFileMerged(frow, acc) ==
    [frow EXCEPT !.status = "ready",
                 !.variants_json =
                     [n \in DOMAIN frow.variants_json \cup DOMAIN acc |->
                         IF n \in DOMAIN acc THEN acc[n] ELSE frow.variants_json[n]]]

\* The file row as the worker writes it after the last variant.
ReadyFile(frow, acc) == [frow EXCEPT !.status = "ready", !.variants_json = acc]

update_file(t) ==
    /\ t \in DOMAIN tasks
    /\ tasks[t].pc = "update"
    /\ LET f == tasks[t].file_id IN
       IF f \in DOMAIN files
       THEN /\ files' = [files EXCEPT ![f] = ReadyFile(files[f], tasks[t].acc)]
            /\ tasks' = [tasks EXCEPT ![t].pc = "terminal"]
       ELSE /\ tasks' = Failed(t, "None of the records are updated")
            /\ UNCHANGED files
    /\ UNCHANGED <<projects, jobs, store, now, next_file, next_job, config, available,
                   wpc, claims, crashes, updates>>

\* TerminalRow putting a failed job back in the queue.
TerminalRowRetry(row, tk) ==
    IF tk.error = ""
    THEN [row EXCEPT !.status = "completed"]
    ELSE [row EXCEPT !.status = "pending"]

\* TerminalRow writing the status only.
TerminalRowStatusOnly(row, tk) ==
    IF tk.error = ""
    THEN [row EXCEPT !.status = "completed"]
    ELSE [row EXCEPT !.status = "failed"]

\* The job row as the terminal update leaves it.
TerminalRow(row, tk) ==
    IF tk.error = ""
    THEN [row EXCEPT !.status = "completed"]
    ELSE [row EXCEPT !.status = "failed", !.payload = FailedPayload(tk.error, tk.payload)]

\* The terminal update, then the return of perform_job, which drops the
\* permit.
terminal_update(t) ==
    /\ t \in DOMAIN tasks
    /\ tasks[t].pc = "terminal"
    /\ LET j == tasks[t].job IN
       jobs' = IF j \in DOMAIN jobs
               THEN [jobs EXCEPT ![j] = TerminalRow(jobs[j], tasks[t])]
               ELSE jobs
    /\ tasks' = [u \in DOMAIN tasks \ {t} |-> tasks[u]]
    /\ available' = available + 1
    /\ UNCHANGED <<projects, files, store, now, next_file, next_job, config, wpc,
                   claims, crashes, updates>>

\* The process dies and is started again: tasks and open transactions are
\* gone, Worker::new builds a fresh semaphore, the tables and the store stay.
Crash ==
    /\ crashes < MaxCrashes
    /\ crashes' = crashes + 1
    /\ tasks' = [t \in {} |-> 0]
    /\ claims' = [c \in Claimers |-> IdleClaim]
    /\ available' = config.worker_concurrency
    /\ wpc' = "start"
    /\ UNCHANGED <<projects, files, jobs, store, now, next_file, next_job, config, updates>>

---------------------------------------------------------------------------
Http ==
    \/ \E p \in ProjectIds, inp \in UploadImageInputs : upload_image(p, inp)
    \/ \E p \in ProjectIds, inp \in UploadFileInputs : upload_file(p, inp)
    \/ \E p \in ProjectIds, s \in SettingsValues : update_project(p, s)
    \/ \E p \in ProjectIds, permanent \in BOOLEAN : delete_project(p, permanent, NoFailure)
    \/ \E f \in FileIds : delete_file(f, NoFailure)
    \/ \E p \in ProjectIds : sync_variants(p)

WorkerLoop ==
    \/ recover_stuck_jobs
    \/ acquire_owned
    \/ claim_and_spawn
    \/ no_job_sleep

TaskStep ==
    \/ \E t \in TaskIds : handle_job(t)
    \/ \E t \in TaskIds, n \in VariantNames, put_ok \in BOOLEAN : process_variant(t, n, put_ok)
    \/ \E t \in TaskIds : update_file(t)
    \/ \E t \in TaskIds : terminal_update(t)

Next ==
    \/ Http
    \/ WorkerLoop
    \/ TaskStep
    \/ claim_error
    \/ clean_soft_deleted_projects(NoFailure)
    \/ Tick(ClockStepDays)
    \/ Crash

Spec == Init /\ [][Next]_vars

---------------------------------------------------------------------------
\* The worker under the scheduling of the tokio runtime: the loop and every
\* spawned task keep being polled, and the claim transaction does not fail
\* for ever.
FairSpec ==
    /\ Spec
    /\ WF_vars(WorkerLoop)
    /\ WF_vars(TaskStep)
    /\ SF_vars(claim_and_spawn)

---------------------------------------------------------------------------
\* The service as main() starts it: the handlers create_routes registers and
\* the background tasks main() spawns.

\* The handlers create_routes registers a route for.
Routes ==
    {"root", "login", "refresh", "logout", "me",
     "create_project", "list_projects", "get_project", "update_project",
     "delete_project", "create_api_key", "list_api_keys", "update_api_key",
     "delete_api_key", "list_admin_jobs", "list_files", "get_file",
     "get_file_content", "create_user", "list_users", "delete_user",
     "upload_file", "upload_image", "list_jobs"}

\* The background tasks main() spawns.
SpawnedTasks == {"worker"}

\* The router's answer to a request no route matches: 404, nothing written.
NotFound == UNCHANGED vars

\* POST /projects/{id}/sync-variants as the router serves it.
post_sync_variants(p) ==
    IF "sync_variants" \in Routes THEN sync_variants(p) ELSE NotFound

\* DELETE /files/{id} as the router serves it.
delete_file_request(f) ==
    IF "delete_file" \in Routes THEN delete_file(f, NoFailure) ELSE NotFound

HttpDeployed ==
    \/ \E p \in ProjectIds, inp \in UploadImageInputs : upload_image(p, inp)
    \/ \E p \in ProjectIds, inp \in UploadFileInputs : upload_file(p, inp)
    \/ \E p \in ProjectIds, s \in SettingsValues : update_project(p, s)
    \/ \E p \in ProjectIds, permanent \in BOOLEAN : delete_project(p, permanent, NoFailure)
    \/ \E p \in ProjectIds : post_sync_variants(p)
    \/ \E f \in FileIds : delete_file_request(f)

\* The worker is the only spawned task: CleanupService::run_scheduler is
\* spawned nowhere, so no step of the running service is a purge.
NextDeployed ==
    \/ HttpDeployed
    \/ WorkerLoop
    \/ TaskStep
    \/ claim_error
    \/ Tick(ClockStepDays)
    \/ Crash

\* The running service under the scheduling of the tokio runtime, with time
\* passing.
FairDeployed ==
    /\ Init
    /\ [][NextDeployed]_vars
    /\ WF_vars(WorkerLoop)
    /\ WF_vars(TaskStep)
    /\ SF_vars(claim_and_spawn)
    /\ WF_vars(Tick(ClockStepDays))

---------------------------------------------------------------------------
\* claim_next_job called by NumClaimers concurrent callers against a jobs
\* table left by earlier uploads, with nothing else running.

ClaimJobIds == 1..NumClaimers

InitClaim ==
    /\ config = [worker_concurrency |-> 1, s3_endpoint |-> FALSE]
    /\ projects = [p \in {1} |-> [settings |-> OnlyThumb, deleted_at |-> NULL]]
    /\ files = [f \in {1} |->
          [project_id |-> 1, s3_key |-> OriginalKey(1, 1, "png"),
           mime_type |-> "image/png", status |-> "processing",
           variants_json |-> [n \in {"thumb"} |->
               [form |-> "vhost_url", key |-> VariantKey(1, n, 1, "webp")]]]]
    /\ store = [k \in {OriginalKey(1, 1, "png")} |-> "png"]
    /\ \E S \in SUBSET ClaimJobIds, st \in [ClaimJobIds -> {"pending", "completed", "failed"}] :
          jobs = [j \in S |->
              [file_id |-> 1, status |-> st[j],
               payload |-> IF st[j] = "failed"
                           THEN FailedPayload("Failed to upload file to S3",
                                              LegacyPayload(OnlyThumb))
                           ELSE LegacyPayload(OnlyThumb),
               created_at |-> j]]
    /\ now = 0
    /\ next_file = 2
    /\ next_job = NumClaimers + 1
    /\ available = 1
    /\ wpc = "idle"
    /\ claims = [c \in Claimers |-> IdleClaim]
    /\ tasks = [t \in {} |-> 0]
    /\ crashes = 0
    /\ updates = 0

ClaimerSelect(c) ==
    /\ ClaimSelect(c)
    /\ UNCHANGED <<projects, files, store, now, next_file, next_job, config,
                   available, wpc, tasks, crashes, updates>>

ClaimerCommit(c) ==
    /\ ClaimCommit(c)
    /\ UNCHANGED <<projects, files, store, now, next_file, next_job, config,
                   available, wpc, tasks, crashes, updates>>

NextClaim ==
    \/ \E c \in Claimers : ClaimerSelect(c)
    \/ \E c \in Claimers : ClaimerCommit(c)

SpecClaim == InitClaim /\ [][NextClaim]_vars

---------------------------------------------------------------------------
\* The delete paths and the retention purge over projects that hold files, with
\* an object store that may fail any delete, and nothing else running.

PurgeProjectIds == 1..(NumProjects + 1)
PurgeClockStepDays == 15

\* The states uploads and the worker leave a project's image in: uploaded and
\* not yet processed; processed up to a failing second variant; processed.
FileShapes == {"uploaded", "half_processed", "processed"}

ShapeSettings(shape) == IF shape = "half_processed" THEN ThumbLarge ELSE OnlyThumb

ShapeFile(p, shape) ==
    [project_id |-> p, s3_key |-> OriginalKey(p, p, "png"), mime_type |-> "image/png",
     status |-> IF shape = "processed" THEN "ready" ELSE "processing",
     variants_json |->
        IF shape = "processed"
        THEN [n \in {"thumb"} |-> BareKey(VariantKey(p, n, p, "webp"))]
        ELSE [n \in DOMAIN ShapeSettings(shape).variants |->
                 [form |-> "vhost_url",
                  key |-> VariantKey(p, n, p,
                             UploadVariantExt(ShapeSettings(shape).variants[n], "png"))]]]

ShapeJob(p, shape) ==
    [file_id |-> p, created_at |-> p,
     status |-> CASE shape = "uploaded" -> "pending"
                  [] shape = "half_processed" -> "failed"
                  [] OTHER -> "completed",
     payload |-> IF shape = "half_processed"
                 THEN FailedPayload("Failed to upload file to S3",
                                    LegacyPayload(ShapeSettings(shape)))
                 ELSE LegacyPayload(ShapeSettings(shape))]

ShapeObjects(p, shape) ==
    {OriginalKey(p, p, "png")} \cup
    (IF shape = "uploaded" THEN {} ELSE {VariantKey(p, "thumb", p, "webp")})

InitPurge ==
    /\ config = [worker_concurrency |-> 1, s3_endpoint |-> FALSE]
    /\ \E shape \in [PurgeProjectIds -> FileShapes] :
          /\ shape[1] = "half_processed"
          /\ projects = [p \in PurgeProjectIds |->
                            [settings |-> ShapeSettings(shape[p]), deleted_at |-> NULL]]
          /\ files = [f \in PurgeProjectIds |-> ShapeFile(f, shape[f])]
          /\ jobs = [j \in PurgeProjectIds |-> ShapeJob(j, shape[j])]
          /\ store = [k \in UNION {ShapeObjects(q, shape[q]) : q \in PurgeProjectIds} |->
                         IF k.sub = "original" THEN "png" ELSE "variant"]
    /\ now = 0
    /\ next_file = NumProjects + 2
    /\ next_job = NumProjects + 2
    /\ available = 1
    /\ wpc = "idle"
    /\ claims = [c \in Claimers |-> IdleClaim]
    /\ tasks = [t \in {} |-> 0]
    /\ crashes = 0
    /\ updates = 0

\* One run of the retention purge, whichever deletes fail.
PurgeRun ==
    \E failing \in FailingSets(DOMAIN files) : clean_soft_deleted_projects(failing)

NextPurge ==
    \/ \E p \in PurgeProjectIds, permanent \in BOOLEAN :
          \E failing \in FailingSets(FilesOf(p)) : delete_project(p, permanent, failing)
    \/ \E f \in DOMAIN files :
          \E failing \in FailingSets({f}) : delete_file(f, failing)
    \/ PurgeRun
    \/ Tick(PurgeClockStepDays)

SpecPurge == InitPurge /\ [][NextPurge]_vars

---------------------------------------------------------------------------
\* The worker over a jobs table that holds one pending job with any payload
\* handle_job distinguishes, in a project with processed images and one file
\* that is no image.

SyncProjectPayload(p) == [kind |-> "sync_project_variants", project_id |-> p]
RootVariants(settings) == [present |-> settings.has_variants, map |-> settings.variants]

DispatchPayloads ==
    {SyncProjectPayload(1),
     SyncProjectPayload(NULL),
     [kind |-> "sync_project_variants", project_id |-> 1, variants |-> RootVariants(OnlyThumb)],
     SyncFilePayload(ThumbLarge.variants),
     [kind |-> "sync_file_variants", variants_config |-> ThumbLarge.variants,
      variants |-> RootVariants(OnlyThumb)],
     [kind |-> "sync_file_variants", variants |-> RootVariants(OnlyThumb)],
     LegacyPayload(OnlyThumb),
     LegacyPayload(NoVariantsKey),
     [kind |-> "typed", type |-> "resize_all", variants |-> RootVariants(OnlyThumb)],
     [kind |-> "typed", type |-> "resize_all"],
     [kind |-> "numeric_type", variants |-> RootVariants(OnlyThumb)],
     [kind |-> "numeric_type"],
     [kind |-> "object"],
     [kind |-> "non_object"]}

DispatchFileIds == 1..(MaxFiles + 1)

\* The last file is a document, the others are images processed with thumb.
DispatchFile(f) ==
    IF f = MaxFiles + 1
    THEN [project_id |-> 1, s3_key |-> FileKey(1, f, "pdf"),
          mime_type |-> "application/pdf", status |-> "ready", variants_json |-> EmptyMap]
    ELSE [project_id |-> 1, s3_key |-> OriginalKey(1, f, "png"),
          mime_type |-> "image/png", status |-> "ready",
          variants_json |-> [n \in {"thumb"} |-> BareKey(VariantKey(1, n, f, "webp"))]]

DispatchObjects ==
    {DispatchFile(f).s3_key : f \in DispatchFileIds} \cup
    {VariantKey(1, "thumb", f, "webp") : f \in 1..MaxFiles}

InitDispatch ==
    /\ config \in {[worker_concurrency |-> c, s3_endpoint |-> FALSE] : c \in 1..MaxConcurrency}
    /\ projects = [p \in {1} |-> [settings |-> ThumbLarge, deleted_at |-> NULL]]
    /\ files = [f \in DispatchFileIds |-> DispatchFile(f)]
    /\ store = [k \in DispatchObjects |->
                   CASE k.class = "files" -> "bytes"
                     [] k.sub = "original" -> "png"
                     [] OTHER -> "variant"]
    /\ \E payload \in DispatchPayloads :
          jobs = [j \in {1} |->
                     [file_id |-> 1, status |-> "pending", payload |-> payload,
                      created_at |-> 1]]
    /\ now = 0
    /\ next_file = MaxFiles + 2
    /\ next_job = 2
    /\ available = config.worker_concurrency
    /\ wpc = "start"
    /\ claims = [c \in Claimers |-> IdleClaim]
    /\ tasks = [t \in {} |-> 0]
    /\ crashes = 0
    /\ updates = 0

NextDispatch ==
    \/ WorkerLoop
    \/ TaskStep
    \/ \E s \in SettingsValues : update_project(1, s)

SpecDispatch == InitDispatch /\ [][NextDispatch]_vars

---------------------------------------------------------------------------
\* The running service for every WORKER_CONCURRENCY the configuration
\* accepts: the variable is parsed as an unsigned integer, so 0 is a value,
\* and Semaphore::new(0) has no permit to give.

ConcurrencyValues == 0..MaxConcurrency

InitAnyConcurrency ==
    /\ projects = [p \in ProjectIds |-> [settings |-> InitialSettings, deleted_at |-> NULL]]
    /\ files = [f \in {} |-> 0]
    /\ jobs = [j \in {} |-> 0]
    /\ store = [k \in {} |-> ""]
    /\ now = 0
    /\ next_file = 1
    /\ next_job = 1
    /\ config \in {[worker_concurrency |-> c, s3_endpoint |-> e] :
                      c \in ConcurrencyValues, e \in S3EndpointValues}
    /\ available = config.worker_concurrency
    /\ wpc = "start"
    /\ claims = [c \in Claimers |-> IdleClaim]
    /\ tasks = [t \in {} |-> 0]
    /\ crashes = 0
    /\ updates = 0

FairAnyConcurrency ==
    /\ InitAnyConcurrency
    /\ [][NextDeployed]_vars
    /\ WF_vars(WorkerLoop)
    /\ WF_vars(TaskStep)
    /\ SF_vars(claim_and_spawn)
    /\ WF_vars(Tick(ClockStepDays))

---------------------------------------------------------------------------
\* The upload and the worker over a database whose writes may fail: the
\* statements are the code's, each its own autocommit statement.

\* upload_image whose INSERT of the job returns an error (or whose process
\* dies before it): the original is stored and the file row is written, the
\* request ends with a 500 and no job exists.
upload_image_job_insert_failed(p, inp) ==
    /\ p \in DOMAIN projects
    /\ next_file <= MaxFiles
    /\ LET settings == projects[p].settings
           f == next_file
           s3_key == OriginalKey(p, f, inp.ext)
           variants ==
               IF settings.has_variants
               THEN [n \in DOMAIN settings.variants |->
                        PublicUrl(VariantKey(p, n, f,
                            UploadVariantExt(settings.variants[n], inp.ext)))]
               ELSE EmptyMap
       IN /\ store' = Put(store, s3_key, inp.data)
          /\ files' = Put(files, f,
                 [project_id |-> p, s3_key |-> s3_key, mime_type |-> inp.mime_type,
                  status |-> "processing", variants_json |-> variants])
    /\ next_file' = next_file + 1
    /\ UNCHANGED <<projects, jobs, now, next_job, config, available, wpc, claims,
                   tasks, crashes, updates>>

\* perform_job whose terminal UPDATE returns an error: the error is printed,
\* nothing is written, the function returns and the permit is dropped.
terminal_update_failed(t) ==
    /\ t \in DOMAIN tasks
    /\ tasks[t].pc = "terminal"
    /\ tasks' = [u \in DOMAIN tasks \ {t} |-> tasks[u]]
    /\ available' = available + 1
    /\ UNCHANGED <<projects, files, jobs, store, now, next_file, next_job, config,
                   wpc, claims, crashes, updates>>

NextFaults ==
    \/ \E p \in ProjectIds, inp \in UploadImageInputs : upload_image(p, inp)
    \/ \E p \in ProjectIds, inp \in UploadImageInputs : upload_image_job_insert_failed(p, inp)
    \/ WorkerLoop
    \/ TaskStep
    \/ \E t \in TaskIds : terminal_update_failed(t)
    \/ Crash

SpecFaults == Init /\ [][NextFaults]_vars

---------------------------------------------------------------------------
\* The worker over the same jobs table, with the process dying and starting
\* again.

NextDispatchCrash ==
    \/ NextDispatch
    \/ Crash

SpecDispatchCrash == InitDispatch /\ [][NextDispatchCrash]_vars

---------------------------------------------------------------------------
\* Uploads and the worker in a project with one variant, for every variant
\* name and format the settings may hold (update_project stores any name and
\* any format string) and uploads whose filename extension is or is not the
\* worker's extension for the bytes.

FormatValues == {"avif", "webp", "png", "jpg", "jpeg", "original", "absent", "gif"}
KeyVariantNames == {"thumb", "original"}

OneVariant(n, format) == [has_variants |-> TRUE, variants |-> [m \in {n} |-> format]]

KeyUploadInputs ==
    {[ext |-> "png", mime_type |-> "image/png", data |-> "png"],
     [ext |-> "jpeg", mime_type |-> "image/jpeg", data |-> "jpeg"]}

InitKeys ==
    /\ \E n \in KeyVariantNames, format \in FormatValues :
          projects = [p \in {1} |-> [settings |-> OneVariant(n, format), deleted_at |-> NULL]]
    /\ files = [f \in {} |-> 0]
    /\ jobs = [j \in {} |-> 0]
    /\ store = [k \in {} |-> ""]
    /\ now = 0
    /\ next_file = 1
    /\ next_job = 1
    /\ config = [worker_concurrency |-> 1, s3_endpoint |-> FALSE]
    /\ available = 1
    /\ wpc = "start"
    /\ claims = [c \in Claimers |-> IdleClaim]
    /\ tasks = [t \in {} |-> 0]
    /\ crashes = 0
    /\ updates = 0

NextKeys ==
    \/ \E inp \in KeyUploadInputs : upload_image(1, inp)
    \/ WorkerLoop
    \/ TaskStep

SpecKeys == InitKeys /\ [][NextKeys]_vars

---------------------------------------------------------------------------
\* Properties.

Holders == {c \in Claimers : claims[c].pc \in {"locked", "got"}}
Returned == {c \in Claimers : claims[c].pc = "got"}
SawNoJob == {c \in Claimers : claims[c].pc = "none"}
PendingJobs == {j \in DOMAIN jobs : jobs[j].status = "pending"}
ProcessingJobs == {j \in DOMAIN jobs : jobs[j].status = "processing"}

\* C1: among any number of concurrent claim transactions, no two hold the
\* lock on, commit the pending -> processing transition of, or return the
\* same job row.
C1_AtMostOneClaimerPerJob ==
    \A c1 \in Holders, c2 \in Holders : c1 # c2 => claims[c1].job # claims[c2].job

C1_TwoClaimersReturned ==
    \E c1 \in Returned, c2 \in Returned :
        c1 # c2 /\ \E c3 \in Claimers : claims[c3].pc = "locked"

StatusOrder(st) ==
    CASE st = "pending" -> 0
      [] st = "processing" -> 1
      [] OTHER -> 2

\* C2 as claimed: every job's status is one of the four, and every change
\* of a job's status moves forward in pending -> processing ->
\* {completed, failed}, startup recovery included.
C2_StatusNeverMovesBack ==
    [][\A j \in DOMAIN jobs \cap DOMAIN jobs' :
          /\ jobs'[j].status \in JobStatuses
          /\ StatusOrder(jobs'[j].status) >= StatusOrder(jobs[j].status)]_vars

\* C2 amended: every job's status is one of the four, and every change of a
\* job's status moves forward in that order, except the startup recovery,
\* which moves processing back to pending.
C2_StatusMovesBackOnlyInRecovery ==
    /\ [](\A j \in DOMAIN jobs : jobs[j].status \in JobStatuses)
    /\ [][\A j \in DOMAIN jobs \cap DOMAIN jobs' :
             \/ StatusOrder(jobs'[j].status) >= StatusOrder(jobs[j].status)
             \/ /\ wpc = "start"
                /\ wpc' = "idle"
                /\ jobs[j].status = "processing"
                /\ jobs'[j].status = "pending"]_vars

C2_OlderJobBackToPending ==
    /\ crashes = 1
    /\ wpc = "idle"
    /\ \E j1 \in DOMAIN jobs, j2 \in DOMAIN jobs :
          /\ jobs[j1].created_at < jobs[j2].created_at
          /\ jobs[j1].status = "pending"
          /\ jobs[j2].status \in {"completed", "failed"}

AllClaimsDone == \A c \in Claimers : claims[c].pc \in {"got", "none"}

\* C3: when N concurrent claim attempts against M <= N pending jobs have all
\* returned, exactly the M jobs are processing, each returned to a distinct
\* attempt, and the other N - M attempts returned no job.
C3_ExactlyThePendingJobsAreClaimed ==
    (AllClaimsDone /\ Cardinality(PendingJobs) + Cardinality(Returned) <= NumClaimers) =>
        /\ PendingJobs = {}
        /\ ProcessingJobs = {claims[c].job : c \in Returned}
        /\ Cardinality(ProcessingJobs) = Cardinality(Returned)
        /\ Cardinality(SawNoJob) = NumClaimers - Cardinality(ProcessingJobs)

C3_TwoClaimedOneSawNone ==
    /\ AllClaimsDone
    /\ Cardinality(ProcessingJobs) = NumClaimers - 1
    /\ Cardinality(SawNoJob) = 1

TaskOf(j) == {t \in DOMAIN tasks : tasks[t].job = j}

HeldPermits == (IF wpc = "holding" THEN 1 ELSE 0) + Cardinality(DOMAIN tasks)

\* C5: the tasks spawned and not yet returned never exceed
\* worker_concurrency, and the free permits plus the permits held by the
\* loop and by the tasks always equal worker_concurrency.
C5_PermitsBoundTasks ==
    /\ available >= 0
    /\ Cardinality(DOMAIN tasks) <= config.worker_concurrency
    /\ available + HeldPermits = config.worker_concurrency

C5_AllPermitsInTasks ==
    /\ config.worker_concurrency = MaxConcurrency
    /\ Cardinality(DOMAIN tasks) = MaxConcurrency
    /\ available = 0

VariantErrors == {"Failed to load image", "Failed to upload file to S3"}

Moved(t) == t \notin DOMAIN tasks' \/ tasks'[t] # tasks[t]

\* C6: a job whose variant processing fails (transform or upload error)
\* writes no file row, neither before the failure nor after it, and its
\* terminal update sets the job to failed.
C6_VariantFailureLeavesFileUnchanged ==
    [][\A t \in DOMAIN tasks :
          /\ (/\ Moved(t)
              /\ \/ tasks[t].pc \in {"handle", "variants"}
                 \/ tasks[t].pc = "terminal" /\ tasks[t].error \in VariantErrors)
             => files' = files
          /\ (/\ tasks[t].pc = "terminal"
              /\ tasks[t].error \in VariantErrors
              /\ crashes' = crashes
              /\ t \notin DOMAIN tasks'
              /\ tasks[t].job \in DOMAIN jobs)
             => /\ jobs'[tasks[t].job].status = "failed"
                /\ tasks[t].file_id \in DOMAIN files =>
                      files'[tasks[t].file_id] = files[tasks[t].file_id]]_vars

C6_FailedJobFileStillProcessing ==
    \E j \in DOMAIN jobs :
        /\ jobs[j].status = "failed"
        /\ jobs[j].payload.error = "Failed to upload file to S3"
        /\ jobs[j].file_id \in DOMAIN files
        /\ files[jobs[j].file_id].status = "processing"

\* C7 as claimed: for every file and every entry of its variants_map, an
\* object exists in the store under the key the entry resolves to.
C7_EveryVariantEntryHasAnObject ==
    \A f \in DOMAIN files : \A n \in DOMAIN files[f].variants_json :
        /\ ResolveKey(files[f].variants_json[n]).some
        /\ ResolveKey(files[f].variants_json[n]).key \in DOMAIN store

\* C8 as claimed: every reader resolves every stored variants_map value,
\* absolute URL or bare key, to the key of the object.
C8_ReadersResolveUrlsAndBareKeys ==
    \A f \in DOMAIN files : \A n \in DOMAIN files[f].variants_json :
        LET v == files[f].variants_json[n] IN
        /\ ResolveKey(v) = Some(v.key)
        /\ ContentKey(v).ok
        /\ ContentKey(v).key = v.key

\* C9 as claimed: a retention-purge run issues an object-store delete for the
\* original key and for the key of every variants_map entry, whatever its
\* form, of every file of the projects it deletes, and removes their file and
\* job rows.
C9_PurgeDeletesEveryStoredKey ==
    [][\A p \in DOMAIN projects :
          (Expired(p) /\ p \notin DOMAIN projects') =>
              \A f \in FilesOf(p) :
                  /\ f \notin DOMAIN files'
                  /\ JobsOf({f}) \cap DOMAIN jobs' = {}
                  /\ files[f].s3_key \in IssuedDeletes({f})
                  /\ \A n \in DOMAIN files[f].variants_json :
                        files[f].variants_json[n].key \in IssuedDeletes({f})]_vars

DefinesVariants(settings) == settings.has_variants /\ DOMAIN settings.variants # {}

\* C10 as claimed: for every file with status ready, its variants_map is
\* non-empty iff the owning project's current settings define at least one
\* variant.
C10_ReadyIffSettingsDefineVariants ==
    \A f \in DOMAIN files :
        files[f].status = "ready" =>
            ((DOMAIN files[f].variants_json # {})
                <=> DefinesVariants(projects[files[f].project_id].settings))

\* C10 amended: a file row is written as ready either by upload_file, with
\* an empty variants_map, or by a worker completion, with a variants_map that
\* has exactly the variant names of the job's configuration snapshot (so it
\* is non-empty iff that snapshot defines at least one variant); a settings
\* update writes no file row.
C10_ReadyMapFollowsJobSnapshot ==
    [][/\ \A f \in DOMAIN files' :
             ((f \notin DOMAIN files \/ files'[f] # files[f]) /\ files'[f].status = "ready") =>
                 IF f \notin DOMAIN files
                 THEN files'[f].variants_json = EmptyMap
                 ELSE \E t \in DOMAIN tasks :
                         /\ tasks[t].file_id = f
                         /\ tasks[t].pc = "update"
                         /\ DOMAIN files'[f].variants_json = DOMAIN tasks[t].cfg
       /\ (DOMAIN projects' = DOMAIN projects /\ projects' # projects) => files' = files]_vars

C10_ReadyWithVariantsNoLongerConfigured ==
    \E f \in DOMAIN files :
        /\ files[f].status = "ready"
        /\ DOMAIN files[f].variants_json = {"thumb"}
        /\ files[f].variants_json["thumb"].form = "key"
        /\ ~DefinesVariants(projects[files[f].project_id].settings)

TerminalStatuses == {"completed", "failed"}

\* C11: a job row whose status is completed or failed is never written
\* again (no claim, startup recovery or resync changes it; it can only go
\* with its file by cascade), and a step that enqueues jobs leaves every
\* existing job row as it was.
C11_TerminalJobsNeverChange ==
    [][/\ \A j \in DOMAIN jobs \cap DOMAIN jobs' :
             jobs[j].status \in TerminalStatuses => jobs'[j] = jobs[j]
       /\ next_job' # next_job =>
             \A j \in DOMAIN jobs : j \in DOMAIN jobs' /\ jobs'[j] = jobs[j]]_vars

C11_FailedJobSurvivesResyncAndRestart ==
    /\ crashes = 1
    /\ wpc = "idle"
    /\ \E j1 \in DOMAIN jobs, j2 \in DOMAIN jobs :
          /\ jobs[j1].status = "failed"
          /\ jobs[j2].file_id = jobs[j1].file_id
          /\ jobs[j2].payload.kind = "sync_file_variants"
          /\ jobs[j2].status = "completed"

\* The tasks whose terminal update this step performs on job j.
Finishing(j) ==
    {t \in DOMAIN tasks \ DOMAIN tasks' :
        tasks[t].job = j /\ tasks[t].pc = "terminal" /\ crashes' = crashes}

StoredKey(tk, n) ==
    VariantKey(tk.project_id, n, tk.file_id, MimeExt(FormatMime(tk.cfg[n], tk.data)))

\* The tasks whose file update this step performs.
UpdatingFile ==
    {t \in DOMAIN tasks \cap DOMAIN tasks' :
        tasks[t].pc = "update" /\ tasks'[t].pc = "terminal" /\ tasks'[t].error = ""}

\* C13: a task reaches its file update only when every configured variant
\* has been stored; the update sets the file to ready with variants_map
\* exactly the map from each configured name to the key its object was
\* stored under (and the object is there); no earlier step of the task
\* writes a file row.
C13_FileReadyWithStoredKeys ==
    /\ [](\A t \in DOMAIN tasks :
            tasks[t].pc = "update" =>
                /\ tasks[t].todo = {}
                /\ DOMAIN tasks[t].acc = DOMAIN tasks[t].cfg)
    /\ [][/\ \A t \in UpdatingFile :
                LET f == tasks[t].file_id IN
                /\ files'[f].status = "ready"
                /\ DOMAIN files'[f].variants_json = DOMAIN tasks[t].cfg
                /\ \A n \in DOMAIN tasks[t].cfg :
                      /\ files'[f].variants_json[n] = BareKey(StoredKey(tasks[t], n))
                      /\ StoredKey(tasks[t], n) \in DOMAIN store
          /\ \A t \in DOMAIN tasks \cap DOMAIN tasks' :
                (tasks[t].pc \in {"handle", "variants"} /\ tasks'[t] # tasks[t])
                    => files' = files]_vars

C13_BothVariantsStoredAndRecorded ==
    \E f \in DOMAIN files :
        /\ files[f].status = "ready"
        /\ DOMAIN files[f].variants_json = {"thumb", "large"}
        /\ \A n \in {"thumb", "large"} :
              /\ files[f].variants_json[n].form = "key"
              /\ files[f].variants_json[n].key \in DOMAIN store

LegacyTasks == {t \in DOMAIN tasks : tasks[t].payload.kind = "legacy"}

\* C18: an image upload stores the project's variants of that moment in the
\* job's payload; a settings update changes no job and no task; a
\* ProcessImage task works on the configuration of its payload, stores
\* objects only for its variants and writes a variants_map with exactly its
\* names.
C18_ProcessImageUsesPayloadSnapshot ==
    /\ [](\A t \in LegacyTasks :
            tasks[t].pc \in {"variants", "update"} =>
                /\ tasks[t].cfg = tasks[t].payload.variants.map
                /\ DOMAIN tasks[t].acc \cup tasks[t].todo = DOMAIN tasks[t].cfg)
    /\ [][/\ \A j \in DOMAIN jobs' \ DOMAIN jobs :
                jobs'[j].payload.kind = "legacy" =>
                    jobs'[j].payload =
                        LegacyPayload(projects[files'[jobs'[j].file_id].project_id].settings)
          /\ (DOMAIN projects' = DOMAIN projects /\ projects' # projects) =>
                (jobs' = jobs /\ tasks' = tasks)
          /\ \A t \in UpdatingFile \cap LegacyTasks :
                DOMAIN files'[tasks[t].file_id].variants_json =
                    DOMAIN tasks[t].payload.variants.map]_vars

C18_SettingsChangedWhileJobInFlight ==
    \E t \in LegacyTasks :
        /\ tasks[t].pc = "update"
        /\ DOMAIN tasks[t].acc = {"thumb"}
        /\ tasks[t].file_id \in DOMAIN files
        /\ projects[files[tasks[t].file_id].project_id].settings = ThumbLarge

\* C15 as claimed: while the service runs, every project whose deleted_at is
\* more than 30 days in the past is eventually hard-deleted without a user
\* request.
C15_ExpiredProjectsArePurged ==
    \A p \in ProjectIds :
        (p \in DOMAIN projects /\ Expired(p)) ~> (p \notin DOMAIN projects)

\* C16 as claimed: a sync-variants request inserts exactly one pending job,
\* of type sync_project_variants, and no sync_file_variants job.
C16_SyncEnqueuesOneProjectJob ==
    [][(next_job' # next_job /\ files' = files) =>
          /\ next_job' = next_job + 1
          /\ jobs'[next_job].status = "pending"
          /\ jobs'[next_job].payload.kind = "sync_project_variants"
          /\ \A j \in DOMAIN jobs' \ DOMAIN jobs :
                jobs'[j].payload.kind # "sync_file_variants"]_vars

\* A ready file with only thumb in a live project whose settings define
\* thumb and large: the state the sync-variants request is made in.
ThumbOnly(f) ==
    /\ f \in DOMAIN files
    /\ files[f].status = "ready"
    /\ DOMAIN files[f].variants_json = {"thumb"}
    /\ projects[files[f].project_id].deleted_at = NULL
    /\ projects[files[f].project_id].settings = ThumbLarge

ThumbAndLarge(f) ==
    /\ f \in DOMAIN files
    /\ DOMAIN files[f].variants_json = {"thumb", "large"}
    /\ \A n \in {"thumb", "large"} : files[f].variants_json[n].key \in DOMAIN store

\* C17 as claimed: once a file has only thumb and the settings define thumb
\* and large, the sync-variants request (a step that leaves the state as it
\* is when no route serves it) leads to the file having both thumb and large
\* with an object for each, unless the file or the project is deleted first.
C17_ResyncAddsLarge ==
    \A f \in FileIds :
        ThumbOnly(f) ~>
            \/ ThumbAndLarge(f)
            \/ f \notin DOMAIN files
            \/ projects[files[f].project_id].deleted_at # NULL
            \/ projects[files[f].project_id].settings # ThumbLarge

\* C19 as claimed: the process ends only after every task in flight has made
\* its terminal update, so that no job is left processing.  (The process
\* installs no signal handler: a shutdown ends it wherever it is.)
C19_ShutdownDrainsTasks ==
    [][crashes' # crashes =>
          /\ DOMAIN tasks = {}
          /\ ProcessingJobs = {}]_vars

\* A project the purge must keep: live, or soft-deleted less than 30 days ago.
Retained(p) ==
    \/ projects[p].deleted_at = NULL
    \/ now - projects[p].deleted_at < RetentionDays

\* The object keys a file row denotes: its original and every variants_map
\* entry, whatever its form.
KeysOf(f) ==
    {files[f].s3_key} \cup
    {files[f].variants_json[n].key : n \in DOMAIN files[f].variants_json}

DeletedDespite(ps, failing) ==
    LET fs == UNION {FilesOf(p) : p \in ps} IN
    /\ ps \cap DOMAIN projects' = {}
    /\ fs \cap DOMAIN files' = {}
    /\ JobsOf(fs) \cap DOMAIN jobs' = {}
    /\ (IssuedDeletes(fs) \ failing) \cap DOMAIN store' = {}

\* C20: in the retention purge, the permanent project delete and the file
\* delete, whichever object deletes fail, every other issued delete is still
\* carried out and the rows are deleted.
C20_FailedObjectDeleteStopsNothing ==
    [][\A failing \in FailingSets(DOMAIN files) :
          /\ clean_soft_deleted_projects(failing) =>
                DeletedDespite({p \in DOMAIN projects : Expired(p)}, failing)
          /\ \A p \in DOMAIN projects :
                delete_project(p, TRUE, failing) => DeletedDespite({p}, failing)
          /\ \A f \in DOMAIN files :
                delete_file(f, failing) =>
                    /\ f \notin DOMAIN files'
                    /\ JobsOf({f}) \cap DOMAIN jobs' = {}
                    /\ (FileDeleteKeys(files[f]) \ failing) \cap DOMAIN store' = {}]_vars

C20_RowsGoneOriginalLeftVariantDeleted ==
    /\ 1 \notin DOMAIN projects
    /\ 1 \notin DOMAIN files
    /\ OriginalKey(1, 1, "png") \in DOMAIN store
    /\ VariantKey(1, "thumb", 1, "webp") \notin DOMAIN store

\* C21: an image upload adds exactly one file row, with status processing,
\* and exactly one job, pending, for that file, with the legacy payload (a
\* root variants key and no type); an arbitrary-file upload adds exactly one
\* file row, with status ready, and no job; neither changes an existing row.
C21_UploadAddsFileAndJob ==
    [][\A p \in ProjectIds :
          /\ \A inp \in UploadImageInputs :
                upload_image(p, inp) =>
                    /\ DOMAIN files' \ DOMAIN files = {next_file}
                    /\ files'[next_file].status = "processing"
                    /\ files'[next_file].project_id = p
                    /\ DOMAIN jobs' \ DOMAIN jobs = {next_job}
                    /\ jobs'[next_job].status = "pending"
                    /\ jobs'[next_job].file_id = next_file
                    /\ jobs'[next_job].payload.kind = "legacy"
                    /\ \A f \in DOMAIN files : files'[f] = files[f]
                    /\ \A j \in DOMAIN jobs : jobs'[j] = jobs[j]
          /\ \A inp \in UploadFileInputs :
                upload_file(p, inp) =>
                    /\ DOMAIN files' \ DOMAIN files = {next_file}
                    /\ files'[next_file].status = "ready"
                    /\ files'[next_file].project_id = p
                    /\ \A f \in DOMAIN files : files'[f] = files[f]
                    /\ jobs' = jobs]_vars

C21_OneImageWithJobOneFileWithout ==
    \E f \in DOMAIN files, g \in DOMAIN files :
        /\ files[f].s3_key.class = "images"
        /\ files[f].status = "processing"
        /\ files[g].s3_key.class = "files"
        /\ files[g].status = "ready"
        /\ JobsOf({g}) = {}
        /\ \E j \in DOMAIN jobs :
              JobsOf({f}) = {j} /\ jobs[j].status = "pending" /\ DOMAIN jobs = {j}

\* C22 as claimed: an image upload of undecodable bytes succeeds and enqueues
\* a job; when the transformer fails that job, the job is failed, its
\* payload.error names the failing stage (decode for bytes that cannot be
\* loaded), and the task has left the file row at processing.
C22_UndecodableUploadFailsTaggedDecode ==
    [][\A j \in DOMAIN jobs \cap DOMAIN jobs' :
          \A t \in Finishing(j) :
              tasks[t].error \in TransformerErrors =>
                  /\ ~Decodable(tasks[t].data)
                  /\ jobs'[j].status = "failed"
                  /\ jobs'[j].payload.error = tasks[t].error
                  /\ files' = files
                  /\ StageWords(jobs'[j].payload.error) = {"decode"}]_vars

\* C23 as claimed: DELETE /projects/{id} without permanent=true sets
\* deleted_at on the live project and changes no other project, no file, no
\* job and no stored object; with permanent=true and an object store that
\* fails no delete, the same step removes the project row, its file rows,
\* their job rows and every object those file rows name (original and
\* variants_map entries).
C23_SoftDeleteMarksHardDeleteRemoves ==
    [][\A p \in DOMAIN projects :
          /\ delete_project(p, FALSE, NoFailure) =>
                /\ projects' = [projects EXCEPT ![p].deleted_at = now]
                /\ files' = files
                /\ jobs' = jobs
                /\ store' = store
          /\ delete_project(p, TRUE, NoFailure) =>
                /\ p \notin DOMAIN projects'
                /\ FilesOf(p) \cap DOMAIN files' = {}
                /\ JobsOf(FilesOf(p)) \cap DOMAIN jobs' = {}
                /\ \A f \in FilesOf(p) : KeysOf(f) \cap DOMAIN store' = {}]_vars

\* The projects a purge run started now would select.
PurgeTargets == {p \in DOMAIN projects : Expired(p)}

\* C24: a retention-purge run, whichever object deletes fail, leaves no
\* project that a second run at the same time would select: the second run
\* finds its list empty and returns before any delete, so the tables and the
\* store stay as the first run left them (a delete that failed in the first
\* run is not retried).
C24_SecondPurgeFindsNothing ==
    [][PurgeRun =>
          /\ PurgeTargets # {}
          /\ PurgeTargets' = {}
          /\ IssuedDeletes(UNION {FilesOf(p) : p \in PurgeTargets})' = {}]_vars

C24_PurgedWithObjectLeftBehind ==
    /\ 1 \notin DOMAIN projects
    /\ 2 \in DOMAIN projects
    /\ projects[2].deleted_at # NULL
    /\ now - projects[2].deleted_at = RetentionDays
    /\ \E k \in DOMAIN store : k.p = 1

\* C25: in the single process, at most one task exists per job and the row
\* of a task's job, while it exists, is processing; so every terminal update
\* finds its row processing, leaves it completed or failed with no task for
\* that job, and never overwrites a pending, completed or failed status.
C25_TerminalUpdateFindsProcessing ==
    /\ [](\A j \in JobIds :
            /\ Cardinality(TaskOf(j)) <= 1
            /\ (TaskOf(j) # {} /\ j \in DOMAIN jobs) => jobs[j].status = "processing")
    /\ [][\A j \in DOMAIN jobs :
             Finishing(j) # {} =>
                 /\ jobs[j].status = "processing"
                 /\ jobs'[j].status \in TerminalStatuses
                 /\ TaskOf(j)' = {}]_vars

C25_TwoTerminalUpdatesDueAfterRestart ==
    /\ crashes = 1
    /\ \E t \in DOMAIN tasks, u \in DOMAIN tasks :
          /\ t # u
          /\ tasks[t].pc = "terminal"
          /\ tasks[u].pc = "terminal"
          /\ tasks[t].error = ""
          /\ tasks[u].error # ""
          /\ {tasks[t].job, tasks[u].job} \subseteq ProcessingJobs

\* The image files of project p.
ImagesOf(p) == {f \in FilesOf(p) : MimeContainsImage(files[f].mime_type)}

\* The tasks that hold a sync_project_variants job for an existing project.
SyncProjectTasks ==
    {t \in DOMAIN tasks :
        /\ tasks[t].payload.kind = "sync_project_variants"
        /\ tasks[t].payload.project_id \in DOMAIN projects}

\* C26: the handling of a sync_project_variants job inserts, for every image
\* file of the project, exactly one job, and no other job; each new job is
\* pending, of type sync_file_variants, and carries the project's
\* settings.variants of that moment; the step changes no file row, no
\* existing job and no stored object and leaves the task without error, and
\* the task's terminal update sets the parent to completed.
C26_SyncProjectFansOutPerImage ==
    [][\A t \in SyncProjectTasks :
          /\ handle_job(t) =>
                LET p == tasks[t].payload.project_id
                    new == DOMAIN jobs' \ DOMAIN jobs
                IN /\ \A f \in ImagesOf(p) :
                         Cardinality({j \in new : jobs'[j].file_id = f}) = 1
                   /\ \A j \in new :
                         /\ jobs'[j].file_id \in ImagesOf(p)
                         /\ jobs'[j].status = "pending"
                         /\ jobs'[j].payload.kind = "sync_file_variants"
                         /\ jobs'[j].payload.variants_config = projects[p].settings.variants
                   /\ \A j \in DOMAIN jobs : jobs'[j] = jobs[j]
                   /\ files' = files
                   /\ store' = store
                   /\ tasks'[t].pc = "terminal"
                   /\ tasks'[t].error = ""
          /\ terminal_update(t) => jobs'[tasks[t].job].status = "completed"]_vars

C26_ChildrenCarrySettingsReadAtHandling ==
    /\ jobs[1].status = "completed"
    /\ jobs[1].payload = SyncProjectPayload(1)
    /\ updates = 1
    /\ projects[1].settings = OnlyThumb
    /\ {jobs[j].file_id : j \in DOMAIN jobs \ {1}} = ImagesOf(1)
    /\ Cardinality(DOMAIN jobs) = Cardinality(ImagesOf(1)) + 1
    /\ ImagesOf(1) # FilesOf(1)
    /\ \A j \in DOMAIN jobs \ {1} : jobs[j].payload = SyncFilePayload(OnlyThumb.variants)

\* Whether the step leaves the tables, the store and the other tasks alone and
\* fails task t with error e.
FailsUntouched(t, e) ==
    /\ tasks'[t].pc = "terminal"
    /\ tasks'[t].error = e
    /\ files' = files
    /\ jobs' = jobs
    /\ store' = store

\* C27: handle_job dispatches a payload that has a string under "type" by
\* that string alone, whether or not it also has a root "variants" key
\* (sync_project_variants and sync_file_variants to their handlers, any other
\* string fails the job); a payload with no string under "type" and a root
\* "variants" key is handled as ProcessImage, on the configuration under that
\* key; every other payload, a non-object included, fails the job; a failing
\* dispatch writes no file row, no job and no object, and the job ends failed.
C27_DispatchByTypeThenVariantsKey ==
    [][\A t \in DOMAIN tasks :
          LET pl == tasks[t].payload IN
          /\ handle_job(t) =>
                CASE pl.kind = "sync_project_variants" ->
                        /\ tasks'[t].pc = "terminal"
                        /\ tasks'[t].error \in {"", "Missing project_id", "Project not found"}
                        /\ files' = files
                        /\ store' = store
                  [] pl.kind = "sync_file_variants" ->
                        IF "variants_config" \in DOMAIN pl
                        THEN /\ tasks'[t].pc \in {"variants", "update"}
                             /\ tasks'[t].cfg = pl.variants_config
                        ELSE FailsUntouched(t, "Missing variants_config")
                  [] pl.kind = "typed" -> FailsUntouched(t, "Unknown job type")
                  [] pl.kind \in {"legacy", "numeric_type"} /\ "variants" \in DOMAIN pl ->
                        IF pl.variants.present
                        THEN /\ tasks'[t].pc \in {"variants", "update"}
                             /\ tasks'[t].cfg = pl.variants.map
                        ELSE FailsUntouched(t, "invalid type: null, expected a map")
                  [] pl.kind = "non_object" -> FailsUntouched(t, "Invalid payload")
                  [] OTHER -> FailsUntouched(t, "Unknown job payload structure")
          /\ (terminal_update(t) /\ tasks[t].error # "") =>
                /\ jobs'[tasks[t].job].status = "failed"
                /\ files' = files
                /\ store' = store]_vars

C27_UnknownTypeWithVariantsKeyFailed ==
    /\ jobs[1].status = "failed"
    /\ jobs[1].payload.error = "Unknown job type"
    /\ "variants" \in DOMAIN jobs[1].payload.original_payload
    /\ DOMAIN jobs = {1}
    /\ files = [f \in DispatchFileIds |-> DispatchFile(f)]
    /\ DOMAIN store = DispatchObjects

\* The jobs this step moves from pending to processing.
Claimed ==
    {j \in DOMAIN jobs \cap DOMAIN jobs' :
        jobs[j].status = "pending" /\ jobs'[j].status = "processing"}

\* C28: a step that moves a job from pending to processing moves exactly
\* one, and no pending row that is not locked by a claimer was created before
\* it; so of two pending jobs the loop claims the older first, a job put back
\* to pending by the startup recovery included.  Nothing orders the terminal
\* updates.
C28_ClaimTakesOldestPending ==
    [][\A b \in Claimed :
          /\ Claimed = {b}
          /\ \A a \in DOMAIN jobs \ Locked :
                jobs[a].status = "pending" => jobs[a].created_at >= jobs[b].created_at]_vars

C28_OlderReclaimedFirstAfterRestart ==
    /\ crashes = 1
    /\ wpc = "idle"
    /\ \E a \in DOMAIN jobs, b \in DOMAIN jobs :
          /\ jobs[a].created_at < jobs[b].created_at
          /\ jobs[a].status = "processing"
          /\ \E t \in TaskOf(a) : tasks[t].pc = "handle"
          /\ jobs[b].status = "pending"

\* C29: the only step that writes an existing file row is a task's file
\* update, and it sets the row to ready with variants_map equal to that
\* task's accumulator, whatever the row held before; so when two jobs of one
\* file both succeed, the map is the accumulator of the one that updated
\* last, without the entries only the earlier one had written.
C29_LastFileUpdateWins ==
    [][\A f \in DOMAIN files \cap DOMAIN files' :
          files'[f] # files[f] =>
              \E t \in UpdatingFile :
                  /\ tasks[t].file_id = f
                  /\ files'[f] = [files[f] EXCEPT !.status = "ready",
                                                  !.variants_json = tasks[t].acc]]_vars

C29_EarlierJobWroteLastAndDroppedLarge ==
    \E f \in DOMAIN files, j1 \in DOMAIN jobs, j2 \in DOMAIN jobs :
        /\ jobs[j1].file_id = f
        /\ jobs[j2].file_id = f
        /\ jobs[j1].created_at < jobs[j2].created_at
        /\ jobs[j1].status = "completed"
        /\ jobs[j2].status = "completed"
        /\ jobs[j1].payload = LegacyPayload(OnlyThumb)
        /\ jobs[j2].payload = SyncFilePayload(ThumbLarge.variants)
        /\ files[f].status = "ready"
        /\ DOMAIN files[f].variants_json = {"thumb"}
        /\ \E k \in DOMAIN store : k.f = f /\ k.sub = "large"

\* The stored variant objects of file f that its variants_map does not name,
\* once every job of the file has completed.
Obsolete(f) ==
    {k \in DOMAIN store :
        /\ \A t \in DOMAIN tasks : tasks[t].file_id # f
        /\ \A j \in JobsOf({f}) : jobs[j].status = "completed"
        /\ files[f].status = "ready"
        /\ k.class = "images"
        /\ k.f = f
        /\ k.sub # "original"
        /\ k.sub \notin DOMAIN files[f].variants_json}

\* C30 as claimed: no step of a sync_file_variants task removes an object, so
\* the object of a variant the new configuration does not name stays stored;
\* the later delete of the file, or the permanent delete of its project, with
\* an object store that fails no delete, removes it.
C30_ObsoleteVariantRemovedOnDelete ==
    [][/\ \A t \in DOMAIN tasks :
             (tasks[t].payload.kind = "sync_file_variants" /\ Moved(t)) =>
                 \A k \in DOMAIN store : k \in DOMAIN store'
       /\ \A f \in DOMAIN files :
             delete_file(f, NoFailure) => Obsolete(f) \cap DOMAIN store' = {}
       /\ \A p \in DOMAIN projects :
             delete_project(p, TRUE, NoFailure) =>
                 \A f \in FilesOf(p) : Obsolete(f) \cap DOMAIN store' = {}]_vars

\* C31 as claimed: for every accepted worker_concurrency, 0 included, every
\* pending job is eventually completed or failed, unless its row is deleted
\* first.
C31_EveryPendingJobFinishes ==
    \A j \in JobIds :
        (j \in DOMAIN jobs /\ jobs[j].status = "pending")
            ~> (j \notin DOMAIN jobs \/ jobs[j].status \in TerminalStatuses)

\* C32 as claimed: once the startup recovery has run, the job rows with
\* status processing are never more than worker_concurrency, also after a
\* terminal update that the database refused.
C32_ProcessingRowsWithinConcurrency ==
    wpc # "start" => Cardinality(ProcessingJobs) <= config.worker_concurrency

\* The sync_file_variants jobs inserted for file f by a handler (job 1 is the
\* job the table starts with).
ChildrenOf(f) ==
    {j \in DOMAIN jobs \ {1} :
        jobs[j].file_id = f /\ jobs[j].payload.kind = "sync_file_variants"}

\* C33 as claimed: a job's handler runs at most once, also across a crash and
\* restart, so the one sync_project_variants job of the table leaves at most
\* one sync_file_variants child per file.
C33_ChildrenCreatedOnce ==
    \A f \in DOMAIN files : Cardinality(ChildrenOf(f)) <= 1

\* C34 as claimed: the job of an image uploaded while the project's settings
\* had no variants key ends completed, with the file ready and its
\* variants_map empty, as for settings with an empty variants map.
C34_NoVariantsKeyJobCompletes ==
    [][\A j \in DOMAIN jobs : \A t \in Finishing(j) :
          (/\ tasks[t].payload.kind = "legacy"
           /\ DOMAIN tasks[t].payload.variants.map = {}
           /\ tasks[t].file_id \in DOMAIN files) =>
              /\ jobs'[j].status = "completed"
              /\ files'[tasks[t].file_id].status = "ready"
              /\ files'[tasks[t].file_id].variants_json = EmptyMap]_vars

\* C35 as claimed: no step of the worker writes to the key of a file's
\* original, whatever the variant is named: the original's object is after
\* every step what the upload stored.
C35_OriginalObjectNeverOverwritten ==
    [][\A f \in DOMAIN files :
          files[f].s3_key \in DOMAIN store =>
              /\ files[f].s3_key \in DOMAIN store'
              /\ store'[files[f].s3_key] = store[files[f].s3_key]]_vars

\* C36 as claimed: when the job of an upload writes the file row, every
\* variant URL the upload stored in variants_map resolves to the key under
\* which the job stored that variant.
C36_UploadUrlIsWorkerKey ==
    [][\A t \in UpdatingFile :
          \A n \in DOMAIN tasks[t].cfg :
              /\ n \in DOMAIN files[tasks[t].file_id].variants_json
              /\ ResolveKey(files[tasks[t].file_id].variants_json[n]) =
                     Some(StoredKey(tasks[t], n))]_vars

\* C37 as claimed: once a project's hard delete has returned, no step stores
\* an object under a key of that project, a job in flight during the delete
\* included.
C37_NoWriteAfterHardDelete ==
    [][\A k \in DOMAIN store' :
          (k \notin DOMAIN store \/ store'[k] # store[k]) => k.p \in DOMAIN projects]_vars

\* C38 as claimed: a step that creates a file row or a job row creates it for
\* a project that is not soft-deleted.
C38_NoRowsForSoftDeletedProject ==
    [][/\ \A f \in DOMAIN files' \ DOMAIN files :
              projects[files'[f].project_id].deleted_at = NULL
       /\ \A j \in DOMAIN jobs' \ DOMAIN jobs :
              projects[files'[jobs'[j].file_id].project_id].deleted_at = NULL]_vars

\* The variant objects of file f in an object store.
VariantObjects(objects, f) ==
    {k \in DOMAIN objects : k.class = "images" /\ k.f = f /\ k.sub # "original"}

\* C39 as claimed: when the first and only job of a file ends failed, every
\* variant object of that file in the store is one the file row refers to;
\* none is left behind unreferenced.
C39_FailedJobLeavesNoVariantObject ==
    [][\A j \in DOMAIN jobs : \A t \in Finishing(j) :
          (/\ tasks[t].error # ""
           /\ JobsOf({tasks[t].file_id}) = {j}
           /\ tasks[t].file_id \in DOMAIN files')
              => VariantObjects(store', tasks[t].file_id)
                    \subseteq FileDeleteKeys(files'[tasks[t].file_id])]_vars

\* C40 as claimed: every image file row with status processing has a job row
\* referring to it whose status is pending, processing or failed.
C40_ProcessingImageHasJob ==
    \A f \in DOMAIN files :
        (files[f].s3_key.class = "images" /\ files[f].status = "processing")
            => \E j \in JobsOf({f}) : jobs[j].status \in {"pending", "processing", "failed"}

====
